---- MODULE Spec2Model ----
(***************************************************************************)
(* Campus work-order distribution (src/campus_work_distribution.py).       *)
(*                                                                         *)
(* The script is re-executed top to bottom by Streamlit every time a       *)
(* sidebar widget changes.  One execution reads the work-order CSV,        *)
(* filters it by date, normalizes and overrides the facility identifiers,  *)
(* loads and normalizes the building registry, computes the fuzzy-match    *)
(* suggestions for the identifiers that are no registry name, counts the   *)
(* orders per (identifier, craft) and builds one tooltip per building.     *)
(*                                                                         *)
(* Python strings are modelled as sequences of one-character strings so    *)
(* that upper(), strip(), difflib's similarity ratio and the code-point    *)
(* ordering used by sorting can be computed as the code computes them.     *)
(***************************************************************************)
EXTENDS Integers, Sequences, FiniteSets, TLC

VARIABLES csv, geojson, pc, selected_years, selected_months, season_months,
          df, gdf, unmatched, suggestions, grouped, tooltip_html

vars == <<csv, geojson, pc, selected_years, selected_months, season_months,
          df, gdf, unmatched, suggestions, grouped, tooltip_html>>

(***************************************************************************)
(* Bounds of the model.                                                    *)
(***************************************************************************)
\* orders in the work-order file when identifiers vary
MaxOrders == 2

\* buildings in the registry
MaxBuildings == 2

\* characters of a raw identifier when all strings are tried
MaxIdLen == 2

\* orders in the work-order file when crafts vary
MaxAggOrders == 3

\* orders in the work-order file when dates vary
MaxFilterOrders == 2

(***************************************************************************)
(* Python optional values: None and a present value.                       *)
(***************************************************************************)
None == [some |-> FALSE]

Some(v) == [some |-> TRUE, val |-> v]

(***************************************************************************)
(* Characters.  CodePoints lists the characters the model uses in          *)
(* ascending Unicode code-point order (space, hyphen, A-Z, a-z), which is  *)
(* the order Python compares strings by.                                   *)
(***************************************************************************)
UpperCase == <<"A","B","C","D","E","F","G","H","I","J","K","L","M",
               "N","O","P","Q","R","S","T","U","V","W","X","Y","Z">>

LowerCase == <<"a","b","c","d","e","f","g","h","i","j","k","l","m",
               "n","o","p","q","r","s","t","u","v","w","x","y","z">>

CodePoints == <<" ", "-">> \o UpperCase \o LowerCase

OrdTable == [c \in {CodePoints[i] : i \in 1..Len(CodePoints)} |->
                CHOOSE i \in 1..Len(CodePoints) : CodePoints[i] = c]

Ord(c) == OrdTable[c]

Min(x, y) == IF x <= y THEN x ELSE y

\* Python's s1 < s2 on strings: lexicographic by code point, a proper prefix first.
RECURSIVE StrLess(_, _)
StrLess(s, t) ==
    IF t = <<>> THEN FALSE
    ELSE IF s = <<>> THEN TRUE
    ELSE IF Ord(Head(s)) # Ord(Head(t)) THEN Ord(Head(s)) < Ord(Head(t))
    ELSE StrLess(Tail(s), Tail(t))

\* sorted(set(...)): the elements of a finite set of strings in ascending order.
RECURSIVE SortedStrings(_)
SortedStrings(S) ==
    IF S = {} THEN <<>>
    ELSE LET m == CHOOSE x \in S : \A y \in S \ {x} : StrLess(x, y)
         IN  <<m>> \o SortedStrings(S \ {m})

Range(s) == {s[i] : i \in 1..Len(s)}

(***************************************************************************)
(* Identifier normalization: .astype(str).str.upper().str.strip()          *)
(***************************************************************************)
\* str.upper() on one character
UpperTable == [c \in {LowerCase[i] : i \in 1..Len(LowerCase)} |->
                  UpperCase[CHOOSE i \in 1..Len(LowerCase) : LowerCase[i] = c]]

UpperChar(c) == IF c \in DOMAIN UpperTable THEN UpperTable[c] ELSE c

RECURSIVE StrUpper(_)
StrUpper(s) == IF s = <<>> THEN <<>> ELSE <<UpperChar(Head(s))>> \o StrUpper(Tail(s))

\* str.strip(): drop leading and trailing whitespace, keep interior whitespace
RECURSIVE LStrip(_)
LStrip(s) == IF s # <<>> /\ Head(s) = " " THEN LStrip(Tail(s)) ELSE s

RECURSIVE RStrip(_)
RStrip(s) ==
    IF s # <<>> /\ s[Len(s)] = " " THEN RStrip(SubSeq(s, 1, Len(s) - 1)) ELSE s

StrStrip(s) == RStrip(LStrip(s))

\* a mutation: only leading whitespace is removed (str.lstrip)
NormalizeLeftOnly(s) == LStrip(StrUpper(s))

Normalize(s) == StrStrip(StrUpper(s))

(***************************************************************************)
(* Program constants.                                                      *)
(***************************************************************************)
COC == <<"C","O","C">>

COLL_OF_COMPUTI == <<"C","O","L","L"," ","O","F"," ","C","O","M","P","U","T","I">>

COLLEGE_OF_COMPUTING ==
    <<"C","O","L","L","E","G","E"," ","O","F"," ","C","O","M","P","U","T","I","N","G">>

MANUAL_OVERRIDES ==
    (COC :> COLLEGE_OF_COMPUTING) @@ (COLL_OF_COMPUTI :> COLLEGE_OF_COMPUTING)

SEASON_MONTHS ==
    [Winter |-> {12, 1, 2}, Spring |-> {3, 4, 5},
     Summer |-> {6, 7, 8},  Fall   |-> {9, 10, 11}]

HVAC == <<"H","V","A","C">>

ELECTRIC == <<"E","L","E","C","T","R","I","C">>

CARPENTRY == <<"C","A","R","P","E","N","T","R","Y">>

PLUMBING == <<"P","L","U","M","B","I","N","G">>

MULTI_CRAFT == <<"M","U","L","T","I","-","C","R","A","F","T">>

PAINT == <<"P","A","I","N","T">>

ADMINISTRATIVE == <<"A","D","M","I","N","I","S","T","R","A","T","I","V","E">>

PROJECT_MANAGEMENT ==
    <<"P","R","O","J","E","C","T"," ","M","A","N","A","G","E","M","E","N","T">>

CRAFT_COLORS ==
    (HVAC :> "#1f77b4") @@ (ELECTRIC :> "#ff7f0e") @@ (CARPENTRY :> "#2ca02c") @@
    (PLUMBING :> "#d62728") @@ (MULTI_CRAFT :> "#9467bd") @@ (PAINT :> "#8c564b") @@
    (ADMINISTRATIVE :> "#e377c2") @@ (PROJECT_MANAGEMENT :> "#7f7f7f")

\* CRAFT_COLORS.get(c, "#CCCCCC")
CraftColor(c) == IF c \in DOMAIN CRAFT_COLORS THEN CRAFT_COLORS[c] ELSE "#CCCCCC"

(***************************************************************************)
(* Series.replace(MANUAL_OVERRIDES): a value equal to a key is replaced by *)
(* that key's value, every other value is kept; one pass, whole values.    *)
(***************************************************************************)
\* a mutation: a value that is already a registry name is left alone, so an
\* exact registry match wins over the override
ReplaceOverridesUnlessRegistered(fid) ==
    IF fid \in DOMAIN MANUAL_OVERRIDES
       /\ fid \notin {Normalize(geojson[i]) : i \in 1..Len(geojson)}
    THEN MANUAL_OVERRIDES[fid]
    ELSE fid

ReplaceOverrides(fid) ==
    IF fid \in DOMAIN MANUAL_OVERRIDES THEN MANUAL_OVERRIDES[fid] ELSE fid

(***************************************************************************)
(* difflib.SequenceMatcher(a = candidate, b = word) without junk: the      *)
(* automatic junk heuristic only applies to sequences of 200 or more       *)
(* elements.  Indices are 1-based here; a window is lo..hi inclusive.      *)
(***************************************************************************)
\* length of the common run of a[i..ahi] and b[j..bhi] starting at (i, j)
RECURSIVE RunLen(_, _, _, _, _, _)
RunLen(a, b, i, ahi, j, bhi) ==
    IF i > ahi \/ j > bhi \/ a[i] # b[j] THEN 0
    ELSE 1 + RunLen(a, b, i + 1, ahi, j + 1, bhi)

\* find_longest_match: the longest block common to both windows; of the
\* longest ones the one starting earliest in a, then earliest in b
find_longest_match(a, b, alo, ahi, blo, bhi) ==
    LET P    == (alo..ahi) \X (blo..bhi)
        len(p) == RunLen(a, b, p[1], ahi, p[2], bhi)
        best == IF P = {} THEN 0
                ELSE LET q == CHOOSE q \in P : \A r \in P : len(r) <= len(q)
                     IN  len(q)
    IN  IF best = 0 THEN [i |-> alo, j |-> blo, size |-> 0]
        ELSE LET Q  == {p \in P : len(p) = best}
                 bi == CHOOSE i \in {p[1] : p \in Q} : \A p \in Q : i <= p[1]
                 bj == CHOOSE j \in {p[2] : p \in {q \in Q : q[1] = bi}} :
                          \A p \in {q \in Q : q[1] = bi} : j <= p[2]
             IN  [i |-> bi, j |-> bj, size |-> best]

\* get_matching_blocks: total size of the blocks found by splitting around
\* the longest match recursively
RECURSIVE MatchingSize(_, _, _, _, _, _)
MatchingSize(a, b, alo, ahi, blo, bhi) ==
    IF alo > ahi \/ blo > bhi THEN 0
    ELSE LET m == find_longest_match(a, b, alo, ahi, blo, bhi)
         IN  IF m.size = 0 THEN 0
             ELSE m.size
                  + MatchingSize(a, b, alo, m.i - 1, blo, m.j - 1)
                  + MatchingSize(a, b, m.i + m.size, ahi, m.j + m.size, bhi)

\* _calculate_ratio(matches, length) as the exact fraction num / den
calculate_ratio(matches, length) ==
    IF length > 0 THEN [num |-> 2 * matches, den |-> length]
    ELSE [num |-> 1, den |-> 1]

\* SequenceMatcher.ratio()
ratio(a, b) ==
    calculate_ratio(MatchingSize(a, b, 1, Len(a), 1, Len(b)), Len(a) + Len(b))

\* SequenceMatcher.real_quick_ratio(): bound from the lengths alone
real_quick_ratio(a, b) == calculate_ratio(Min(Len(a), Len(b)), Len(a) + Len(b))

\* number of occurrences of c in s
Occurrences(s, c) == Cardinality({i \in 1..Len(s) : s[i] = c})

\* size of the multiset intersection of a and b over the given characters
RECURSIVE CommonCount(_, _, _)
CommonCount(chars, a, b) ==
    IF chars = {} THEN 0
    ELSE LET c == CHOOSE c \in chars : TRUE
         IN  Min(Occurrences(a, c), Occurrences(b, c)) + CommonCount(chars \ {c}, a, b)

\* SequenceMatcher.quick_ratio(): bound from the multiset intersection
quick_ratio(a, b) == calculate_ratio(CommonCount(Range(a), a, b), Len(a) + Len(b))

\* r >= cutoff for a cutoff given in tenths (0.6 is 6, 0.7 is 7)
AtLeast(r, cutoff10) == 10 * r.num >= cutoff10 * r.den

\* the (score, x) tuple order heapq.nlargest sorts by, largest first
ScoredBefore(p, q) ==
    \/ p.score.num * q.score.den > q.score.num * p.score.den
    \/ /\ p.score.num * q.score.den = q.score.num * p.score.den
       /\ StrLess(q.x, p.x)

\* a mutation: the result is not cut to the n best candidates
get_close_matches_uncut(word, possibilities, n, cutoff10) ==
    LET scored == [i \in 1..Len(possibilities) |->
                      [score |-> ratio(possibilities[i], word), x |-> possibilities[i]]]
        kept   == SelectSeq(scored, LAMBDA p : AtLeast(p.score, cutoff10))
        sorted == SortSeq(kept, ScoredBefore)
    IN  [i \in 1..Len(sorted) |-> sorted[i].x]

\* difflib.get_close_matches(word, possibilities, n, cutoff)
get_close_matches(word, possibilities, n, cutoff10) ==
    LET passes(x) == /\ AtLeast(real_quick_ratio(x, word), cutoff10)
                     /\ AtLeast(quick_ratio(x, word), cutoff10)
                     /\ AtLeast(ratio(x, word), cutoff10)
        kept   == SelectSeq(possibilities, passes)
        scored == [i \in 1..Len(kept) |-> [score |-> ratio(kept[i], word), x |-> kept[i]]]
        sorted == SortSeq(scored, ScoredBefore)
    IN  [i \in 1..Min(n, Len(sorted)) |-> sorted[i].x]

(***************************************************************************)
(* Slider bounds: the smallest and largest year / month of the CSV.        *)
(***************************************************************************)
MinOf(S) == CHOOSE x \in S : \A y \in S : x <= y

MaxOf(S) == CHOOSE x \in S : \A y \in S : y <= x

load_year_bounds(path) ==
    LET years == {path[i].WORKDATE.year : i \in 1..Len(path)}
    IN  <<MinOf(years), MaxOf(years)>>

load_month_bounds(path) ==
    LET months == {path[i].WORKDATE.month : i \in 1..Len(path)}
    IN  <<MinOf(months), MaxOf(months)>>

(***************************************************************************)
(* load_and_filter_orders: derive year, month, FAC_ID_UP and               *)
(* FAC_ID_MAPPED for every row, then keep the rows the mask selects.       *)
(***************************************************************************)
\* Series.between(lo, hi): inclusive on both sides
Between(x, lo, hi) == lo <= x /\ x <= hi

\* a mutation: the season filter replaces the month-range filter instead of
\* being combined with it
FilterMaskSeasonOnly(row, years, months, season) ==
    /\ Between(row.year, years[1], years[2])
    /\ IF season.some THEN row.month \in season.val
       ELSE months[1].some => Between(row.month, months[1].val, months[2].val)

FilterMask(row, years, months, season) ==
    /\ Between(row.year, years[1], years[2])
    /\ months[1].some => Between(row.month, months[1].val, months[2].val)
    /\ season.some => row.month \in season.val

\* a mutation: an identifier without override entry that is no registry name
\* is resolved to the best fuzzy match at cutoff 0.7 when there is one
DeriveColumnsAutoResolve(r) ==
    LET n     == Normalize(r.FAC_ID)
        names == [i \in 1..Len(geojson) |-> Normalize(geojson[i])]
        m     == get_close_matches(n, names, 3, 7)
    IN  [FAC_ID        |-> r.FAC_ID,
         CRAFT         |-> r.CRAFT,
         WORKDATE      |-> r.WORKDATE,
         year          |-> r.WORKDATE.year,
         month         |-> r.WORKDATE.month,
         FAC_ID_UP     |-> n,
         FAC_ID_MAPPED |-> IF n \in DOMAIN MANUAL_OVERRIDES THEN MANUAL_OVERRIDES[n]
                           ELSE IF n \notin Range(names) /\ m # <<>> THEN m[1]
                           ELSE n]

DeriveColumns(r) ==
    [FAC_ID        |-> r.FAC_ID,
     CRAFT         |-> r.CRAFT,
     WORKDATE      |-> r.WORKDATE,
     year          |-> r.WORKDATE.year,
     month         |-> r.WORKDATE.month,
     FAC_ID_UP     |-> Normalize(r.FAC_ID),
     FAC_ID_MAPPED |-> ReplaceOverrides(Normalize(r.FAC_ID))]

load_and_filter_orders(path, years, months, season) ==
    LET rows == [i \in 1..Len(path) |-> DeriveColumns(path[i])]
    IN  SelectSeq(rows, LAMBDA r : FilterMask(r, years, months, season))

(***************************************************************************)
(* load_buildings: every registry name is upper-cased and stripped; every  *)
(* record is kept.                                                         *)
(***************************************************************************)
\* a mutation: records whose normalized name was already seen are dropped
RECURSIVE DropDuplicateNames(_, _)
DropDuplicateNames(names, seen) ==
    IF names = <<>> THEN <<>>
    ELSE LET n == Normalize(Head(names))
         IN  IF n \in seen THEN DropDuplicateNames(Tail(names), seen)
             ELSE <<[Sheet3__Common_Name |-> n]>>
                  \o DropDuplicateNames(Tail(names), seen \cup {n})

load_buildings_dedup(path) == DropDuplicateNames(path, {})

load_buildings(path) ==
    [i \in 1..Len(path) |-> [Sheet3__Common_Name |-> Normalize(path[i])]]

(***************************************************************************)
(* Fuzzy-match suggestions.                                                *)
(***************************************************************************)
\* Series.unique(): the distinct values in order of first appearance
RECURSIVE Unique(_, _)
Unique(s, seen) ==
    IF s = <<>> THEN <<>>
    ELSE IF Head(s) \in seen THEN Unique(Tail(s), seen)
    ELSE <<Head(s)>> \o Unique(Tail(s), seen \cup {Head(s)})

BuildingNames(g) == [i \in 1..Len(g) |-> g[i].Sheet3__Common_Name]

MappedIds(d) == [i \in 1..Len(d) |-> d[i].FAC_ID_MAPPED]

Unmatched(d, building_names) ==
    SelectSeq(Unique(MappedIds(d), {}), LAMBDA fid : fid \notin Range(building_names))

\* a mutation: the suggestion list is not limited to three candidates
SuggestionsUncut(unm, building_names) ==
    [fid \in Range(unm) |-> get_close_matches_uncut(fid, building_names, 3, 6)]

Suggestions(unm, building_names) ==
    [fid \in Range(unm) |-> get_close_matches(fid, building_names, 3, 6)]

(***************************************************************************)
(* groupby("FAC_ID_MAPPED")["CRAFT"].value_counts().unstack(fill_value=0)  *)
(***************************************************************************)
\* one more order counted under (key, craft)
Increment(counts, key, craft) ==
    IF <<key, craft>> \in DOMAIN counts
    THEN [counts EXCEPT ![<<key, craft>>] = @ + 1]
    ELSE counts @@ (<<key, craft>> :> 1)

\* a mutation: a pair is recorded once however often it occurs
Mark(counts, key, craft) ==
    IF <<key, craft>> \in DOMAIN counts THEN counts
    ELSE counts @@ (<<key, craft>> :> 1)

\* value_counts per group: the orders counted one after the other
RECURSIVE ValueCounts(_, _)
ValueCounts(d, counts) ==
    IF d = <<>> THEN counts
    ELSE ValueCounts(Tail(d), Increment(counts, Head(d).FAC_ID_MAPPED, Head(d).CRAFT))

EmptyCounts == [p \in {} |-> 0]

\* the table with the sorted group keys as rows and the given columns; a
\* pair that never occurs is filled with 0
TableOf(counts, columns) ==
    LET keys   == {p[1] : p \in DOMAIN counts}
        crafts == {p[2] : p \in DOMAIN counts}
    IN  [index   |-> SortedStrings(keys),
         columns |-> columns,
         values  |-> [k \in keys |-> [c \in crafts |->
                        IF <<k, c>> \in DOMAIN counts THEN counts[<<k, c>>] ELSE 0]]]

\* unstack(fill_value=0): the columns are the sorted craft labels
Unstack(counts) == TableOf(counts, SortedStrings({p[2] : p \in DOMAIN counts}))

\* a mutation of the counting, see Mark
RECURSIVE MarkCounts(_, _)
MarkCounts(d, counts) ==
    IF d = <<>> THEN counts
    ELSE MarkCounts(Tail(d), Mark(counts, Head(d).FAC_ID_MAPPED, Head(d).CRAFT))

GroupedMarked(d) == Unstack(MarkCounts(d, EmptyCounts))

\* a mutation: the columns keep the order in which the crafts first occur
\* among the orders instead of being sorted
GroupedFirstSeen(d) ==
    TableOf(ValueCounts(d, EmptyCounts), Unique([i \in 1..Len(d) |-> d[i].CRAFT], {}))

Grouped(d) == Unstack(ValueCounts(d, EmptyCounts))

EmptyTable == [index |-> <<>>, columns |-> <<>>, values |-> EmptyCounts]

(***************************************************************************)
(* build_tooltip_html: the pie chart and legend of one building, or the    *)
(* placeholder when the building is no row of the count table.             *)
(***************************************************************************)
\* a mutation: zero counts are kept (raw >= 0)
NonNegativeCounts(table, name) ==
    [i \in 1..Len(table.columns) |->
        [craft |-> table.columns[i],
         count |-> table.values[name][table.columns[i]]]]

\* raw[raw > 0]: the (craft, count) pairs with a positive count, in column order
PositiveCounts(table, name) ==
    LET cells == [i \in 1..Len(table.columns) |->
                     [craft |-> table.columns[i],
                      count |-> table.values[name][table.columns[i]]]]
    IN  SelectSeq(cells, LAMBDA c : c.count > 0)

RECURSIVE SumCounts(_)
SumCounts(counts) ==
    IF counts = <<>> THEN 0 ELSE Head(counts).count + SumCounts(Tail(counts))

\* counts.div(counts.sum()) * 100 as the exact fraction num / den
Pct(counts) ==
    [i \in 1..Len(counts) |-> [num |-> counts[i].count * 100, den |-> SumCounts(counts)]]

Legend(counts, pct) ==
    [i \in 1..Len(counts) |->
        [craft |-> counts[i].craft, color |-> CraftColor(counts[i].craft), pct |-> pct[i]]]

NoData(name) == [name |-> name, text |-> "No work-order data", legend |-> <<>>]

\* a mutation: the name is looked up among the columns (name in grouped)
build_tooltip_html_columns(row) ==
    LET name == row.Sheet3__Common_Name
    IN  IF name \in Range(grouped.columns)
        THEN LET counts == PositiveCounts(grouped, name)
             IN  [name |-> name, text |-> "pie",
                  legend |-> Legend(counts, Pct(counts))]
        ELSE NoData(name)

build_tooltip_html(row) ==
    LET name == row.Sheet3__Common_Name
    IN  IF name \in Range(grouped.index)
        THEN LET counts == PositiveCounts(grouped, name)
             IN  [name |-> name, text |-> "pie",
                  legend |-> Legend(counts, Pct(counts))]
        ELSE NoData(name)

(***************************************************************************)
(* Inputs: the work-order file and the building file.                      *)
(***************************************************************************)
Str(k, A) == [1..k -> A]

Strings(n, A) == UNION {Str(k, A) : k \in 0..n}

NonEmptySeqs(n, S) == UNION {[1..k -> S] : k \in 1..n}

KLAUS == <<"K","L","A","U","S">>

\* one row of the work-order file; every row carries an identifier, a craft
\* label and a parsed date
Order(fid, craft, year, month) ==
    [FAC_ID |-> fid, CRAFT |-> craft, WORKDATE |-> [year |-> year, month |-> month]]

\* raw identifiers: an override key in lower case and two near misses of the
\* name KLAUS, one above the cutoff 0.7 (ratio 8/9) and one between the
\* cutoffs 0.6 and 0.7 (ratio 6/9)
ReconIds == { <<"c","o","c">>, <<"K","L","A","U">>, <<"K","L","X","S">> }

\* raw registry names: KLAUS, the override key COC, and the override value in
\* two spellings
ReconNames ==
    { <<"K","l","a","u","s">>, <<"C","O","C">>,
      <<"C","o","l","l","e","g","e"," ","o","f"," ","C","o","m","p","u","t","i","n","g">>,
      <<" ">> \o COLLEGE_OF_COMPUTING }

ReconOrders == {Order(fid, HVAC, 2020, 2) : fid \in ReconIds}

\* a registry with more than three names close to one identifier
CrowdedRegistry ==
    << <<"K","l","a","u","s">>, <<"K","l","a","u","t">>, <<"K","l","a">>,
       <<" ","K","L","A","U","S">> >>

ReconRegistries == NonEmptySeqs(MaxBuildings, ReconNames) \cup {CrowdedRegistry}

\* the defaults of the sidebar on the first run: the whole year range, no
\* month-range filter, no season filter; nothing computed yet
InitWith(orders, buildings) ==
    /\ csv = orders
    /\ geojson = buildings
    /\ selected_years = load_year_bounds(orders)
    /\ selected_months = <<None, None>>
    /\ season_months = None
    /\ pc = "load_orders"
    /\ df = <<>>
    /\ gdf = <<>>
    /\ unmatched = <<>>
    /\ suggestions = <<>>
    /\ grouped = EmptyTable
    /\ tooltip_html = <<>>

Init ==
    \E orders \in NonEmptySeqs(MaxOrders, ReconOrders),
       buildings \in ReconRegistries :
        InitWith(orders, buildings)

(***************************************************************************)
(* The steps of one execution of the script.                               *)
(***************************************************************************)
LoadAndFilterOrders ==
    /\ pc = "load_orders"
    /\ df' = load_and_filter_orders(csv, selected_years, selected_months, season_months)
    /\ pc' = "load_buildings"
    /\ UNCHANGED <<csv, geojson, selected_years, selected_months, season_months,
                   gdf, unmatched, suggestions, grouped, tooltip_html>>

LoadBuildings ==
    /\ pc = "load_buildings"
    /\ gdf' = load_buildings(geojson)
    /\ pc' = "suggestions"
    /\ UNCHANGED <<csv, geojson, selected_years, selected_months, season_months,
                   df, unmatched, suggestions, grouped, tooltip_html>>

FuzzyMatchSuggestions ==
    /\ pc = "suggestions"
    /\ unmatched' = Unmatched(df, BuildingNames(gdf))
    /\ suggestions' = Suggestions(unmatched', BuildingNames(gdf))
    /\ pc' = "aggregate"
    /\ UNCHANGED <<csv, geojson, selected_years, selected_months, season_months,
                   df, gdf, grouped, tooltip_html>>

AggregateByCraft ==
    /\ pc = "aggregate"
    /\ grouped' = Grouped(df)
    /\ pc' = "tooltips"
    /\ UNCHANGED <<csv, geojson, selected_years, selected_months, season_months,
                   df, gdf, unmatched, suggestions, tooltip_html>>

BuildTooltips ==
    /\ pc = "tooltips"
    /\ tooltip_html' = [i \in 1..Len(gdf) |-> build_tooltip_html(gdf[i])]
    /\ pc' = "rendered"
    /\ UNCHANGED <<csv, geojson, selected_years, selected_months, season_months,
                   df, gdf, unmatched, suggestions, grouped>>

\* the positions of the month slider the model tries
MonthStops == {2, 3, 12}

\* A widget is changed: the script runs again from the top with the new
\* sidebar values and recomputes everything.
SidebarControls ==
    /\ pc = "rendered"
    /\ \E ylo, yhi \in load_year_bounds(csv)[1]..load_year_bounds(csv)[2] :
          /\ ylo <= yhi
          /\ selected_years' = <<ylo, yhi>>
    /\ \E filter_months \in BOOLEAN :
          IF filter_months
          THEN \E mlo, mhi \in MonthStops :
                  /\ load_month_bounds(csv)[1] <= mlo
                  /\ mlo <= mhi
                  /\ mhi <= load_month_bounds(csv)[2]
                  /\ selected_months' = <<Some(mlo), Some(mhi)>>
          ELSE selected_months' = <<None, None>>
    /\ \E filter_season \in BOOLEAN :
          IF filter_season
          THEN \E selected_season \in DOMAIN SEASON_MONTHS :
                  season_months' = Some(SEASON_MONTHS[selected_season])
          ELSE season_months' = None
    /\ pc' = "load_orders"
    /\ df' = <<>>
    /\ gdf' = <<>>
    /\ unmatched' = <<>>
    /\ suggestions' = <<>>
    /\ grouped' = EmptyTable
    /\ tooltip_html' = <<>>
    /\ UNCHANGED <<csv, geojson>>

Next ==
    \/ LoadAndFilterOrders
    \/ LoadBuildings
    \/ FuzzyMatchSuggestions
    \/ AggregateByCraft
    \/ BuildTooltips
    \/ SidebarControls

Spec == Init /\ [][Next]_vars

(***************************************************************************)
(* The same script started on other families of input files.               *)
(***************************************************************************)
\* every string of at most MaxIdLen characters over a lower-case letter, its
\* upper-case form and the space, as the identifier of two orders
NormAlphabet == {"c", "C", " "}

NormNames == { <<"c">>, <<"C","c"," ">> }

InitNorm ==
    \E x, y \in Strings(MaxIdLen, NormAlphabet), name \in NormNames :
        InitWith(<<Order(x, HVAC, 2020, 2), Order(y, HVAC, 2020, 2)>>, <<name>>)

SpecNorm == InitNorm /\ [][Next]_vars

\* a craft that has no entry in the palette
ROOFING == <<"R","O","O","F","I","N","G">>

AggOrders ==
    {Order(fid, craft, 2020, 2) :
        fid \in { <<"c","o","c">>, <<"K","l","a","u","s">> },
        craft \in {HVAC, ELECTRIC, ROOFING}}

AggRegistry ==
    << <<"K","l","a","u","s">>,
       <<"C","o","l","l","e","g","e"," ","o","f"," ","C","o","m","p","u","t","i","n","g">> >>

InitAgg ==
    \E orders \in NonEmptySeqs(MaxAggOrders, AggOrders) : InitWith(orders, AggRegistry)

SpecAgg == InitAgg /\ [][Next]_vars

FilterOrders ==
    {Order(<<"K","l","a","u","s">>, HVAC, year, month) :
        year \in {2020, 2021}, month \in MonthStops}

InitFilter ==
    \E orders \in NonEmptySeqs(MaxFilterOrders, FilterOrders) :
        InitWith(orders, << <<"K","l","a","u","s">> >>)

SpecFilter == InitFilter /\ [][Next]_vars

(***************************************************************************)
(* Properties of identifier reconciliation.                                *)
(***************************************************************************)
Aggregated == pc \in {"tooltips", "rendered"}

Names == BuildingNames(gdf)

\* number of filtered orders counted under (key, craft) in the count table
Cell(key, craft) ==
    IF key \in Range(grouped.index) /\ craft \in Range(grouped.columns)
    THEN grouped.values[key][craft]
    ELSE 0

\* upper-cased and stripped form of a raw identifier, from the characters
UpperStripped(s) ==
    LET up == [i \in 1..Len(s) |-> UpperChar(s[i])]
        I  == {i \in 1..Len(s) : s[i] # " "}
    IN  IF I = {} THEN <<>> ELSE SubSeq(up, MinOf(I), MaxOf(I))

\* C1: Override precedence.  Every filtered order whose upper-cased, stripped
\* identifier is a key of the override table is aggregated under the
\* override's value and not under the key, also when the key itself is a
\* registry name.
C1_OverridePrecedence ==
    Aggregated =>
        \A i \in 1..Len(df) :
            LET n == UpperStripped(df[i].FAC_ID)
            IN  n \in DOMAIN MANUAL_OVERRIDES =>
                    /\ df[i].FAC_ID_MAPPED = MANUAL_OVERRIDES[n]
                    /\ Cell(MANUAL_OVERRIDES[n], df[i].CRAFT) >= 1
                    /\ n \notin Range(grouped.index)

\* C1 witness: 'coc' has been aggregated under COLLEGE OF COMPUTING while the
\* registry holds a building named COC.
C1_Witness ==
    /\ pc = "rendered"
    /\ \E i \in 1..Len(df) : df[i].FAC_ID = <<"c","o","c">>
    /\ COC \in Range(Names)
    /\ COLLEGE_OF_COMPUTING \in Range(grouped.index)
    /\ COC \notin Range(grouped.index)

\* the orders the automatic fuzzy resolution of C2 is about
NeedsFuzzy(i) ==
    LET n == UpperStripped(df[i].FAC_ID)
    IN  n \notin DOMAIN MANUAL_OVERRIDES /\ n \notin Range(Names)

\* C2 as stated: an identifier without override entry that is no registry
\* name, for which the fuzzy resolver returns candidates at cutoff 0.7, is
\* aggregated under the first candidate and not under its own form.
C2_AutomaticFuzzyResolution ==
    Aggregated =>
        \A i \in 1..Len(df) :
            LET n == UpperStripped(df[i].FAC_ID)
                m == get_close_matches(n, Names, 3, 7)
            IN  (NeedsFuzzy(i) /\ m # <<>>) =>
                    /\ df[i].FAC_ID_MAPPED = m[1]
                    /\ Cell(m[1], df[i].CRAFT) >= 1

\* C2 amended: no automatic fuzzy resolution takes place.  An identifier
\* without override entry that is no registry name is aggregated under its own
\* upper-cased, stripped form whatever the fuzzy resolver returns; when the
\* resolver returns candidates at cutoff 0.7, the first of them is only the
\* first suggestion reported for the identifier, not its aggregation key.
C2_NoAutomaticResolution ==
    Aggregated =>
        \A i \in 1..Len(df) :
            LET n == UpperStripped(df[i].FAC_ID)
                m == get_close_matches(n, Names, 3, 7)
            IN  NeedsFuzzy(i) =>
                    /\ df[i].FAC_ID_MAPPED = n
                    /\ Cell(n, df[i].CRAFT) >= 1
                    /\ n \in DOMAIN suggestions
                    /\ m # <<>> =>
                          /\ suggestions[n] # <<>>
                          /\ suggestions[n][1] = m[1]
                          /\ df[i].FAC_ID_MAPPED # m[1]

\* C2 witness: an identifier with a candidate at cutoff 0.7 has been
\* aggregated under its own form.
C2_Witness ==
    /\ pc = "rendered"
    /\ \E i \in 1..Len(df) :
          /\ NeedsFuzzy(i)
          /\ get_close_matches(UpperStripped(df[i].FAC_ID), Names, 3, 7) # <<>>
          /\ UpperStripped(df[i].FAC_ID) \in Range(grouped.index)

\* identifiers of the filtered orders that fail override, exact and fuzzy
\* (cutoff 0.7) resolution
Unresolved ==
    {UpperStripped(df[i].FAC_ID) : i \in
        {j \in 1..Len(df) :
            /\ NeedsFuzzy(j)
            /\ get_close_matches(UpperStripped(df[j].FAC_ID), Names, 3, 7) = <<>>}}

SuggestionsWellFormed ==
    \A fid \in DOMAIN suggestions :
        /\ Len(suggestions[fid]) <= 3
        /\ Range(suggestions[fid]) \subseteq Range(Names)
        /\ fid \notin Range(Names)

\* C3 as stated: the diagnostics hold exactly the identifiers that fail
\* override, exact and fuzzy resolution, each kept as its own aggregation key
\* with at most 3 suggestions that are registry names.
C3_DiagnosticsExactlyUnresolved ==
    Aggregated =>
        /\ DOMAIN suggestions = Unresolved
        /\ \A fid \in Unresolved : fid \in Range(grouped.index)
        /\ SuggestionsWellFormed

\* C3 amended: the diagnostics hold exactly the identifiers that, after the
\* override substitution, are no registry name, whether or not a registry name
\* is similar to them (so also an override's value that the registry lacks);
\* each is kept unchanged as its own aggregation key and has at most 3
\* suggestions, all registry names; no identifier that is a registry name is
\* in the diagnostics, and the run completes with a tooltip for every building.
C3_DiagnosticsExactlyUnregistered ==
    Aggregated =>
        /\ DOMAIN suggestions =
              {ReplaceOverrides(UpperStripped(df[i].FAC_ID)) : i \in 1..Len(df)}
                  \ Range(Names)
        /\ Range(unmatched) = DOMAIN suggestions
        /\ \A fid \in DOMAIN suggestions : fid \in Range(grouped.index)
        /\ SuggestionsWellFormed
        /\ pc = "rendered" => Len(tooltip_html) = Len(gdf)

\* C3 witness: the diagnostics hold an identifier without any suggestion and
\* one for which more than three registry names pass the advisory cutoff.
C3_Witness ==
    /\ pc = "rendered"
    /\ \E fid \in DOMAIN suggestions : suggestions[fid] = <<>>
    /\ \E fid \in DOMAIN suggestions :
          /\ Len(suggestions[fid]) = 3
          /\ Cardinality({k \in 1..Len(Names) :
                             AtLeast(ratio(Names[k], fid), 6)}) > 3

\* two registry entries have the same upper-cased, stripped name
AmbiguousRegistry ==
    \E i, j \in 1..Len(geojson) :
        i # j /\ UpperStripped(geojson[i]) = UpperStripped(geojson[j])

\* C5 as stated: with an ambiguous registry the run stops once the registry
\* is loaded; no suggestion, count table or tooltip is computed.
C5_AmbiguousRegistryStops ==
    AmbiguousRegistry => pc \in {"load_orders", "load_buildings", "suggestions"}

\* C5 amended: an ambiguous registry raises no error.  Every registry entry is
\* kept, reconciliation and aggregation proceed, and entries with the same
\* normalized name are each given the same tooltip.
C5_DuplicatesKeptSameSummary ==
    pc = "rendered" =>
        /\ Len(gdf) = Len(geojson)
        /\ Len(tooltip_html) = Len(geojson)
        /\ \A i, j \in 1..Len(geojson) :
              UpperStripped(geojson[i]) = UpperStripped(geojson[j]) =>
                  /\ tooltip_html[i] = tooltip_html[j]
                  /\ tooltip_html[i].name = UpperStripped(geojson[i])

\* C5 witness: two differently written entries of the same name both carry
\* the pie chart of that name.
C5_Witness ==
    /\ pc = "rendered"
    /\ \E i, j \in 1..Len(geojson) :
          /\ i # j
          /\ geojson[i] # geojson[j]
          /\ UpperStripped(geojson[i]) = UpperStripped(geojson[j])
          /\ tooltip_html[i].text = "pie"
          /\ tooltip_html[j].text = "pie"

(***************************************************************************)
(* Properties of aggregation and of the tooltips.                          *)
(***************************************************************************)
\* the filtered orders of one aggregation key, as positions of df
OrdersOf(key) == {i \in 1..Len(df) : df[i].FAC_ID_MAPPED = key}

Keys == {df[i].FAC_ID_MAPPED : i \in 1..Len(df)}

Crafts == {df[i].CRAFT : i \in 1..Len(df)}

Permuted(d, perm) == [i \in 1..Len(d) |-> d[perm[i]]]

\* C4: Aggregation correctness and order-independence.  The count table has
\* one row per reconciled identifier and one column per craft label of the
\* filtered orders, its entry for a pair is the number of filtered orders with
\* that identifier and craft (a craft outside the palette under its own
\* label), and counting the same orders in any other order gives the same
\* table.
C4_CountsAndOrderIndependence ==
    Aggregated =>
        /\ Range(grouped.index) = Keys
        /\ Range(grouped.columns) = Crafts
        /\ \A key \in Keys, craft \in Crafts :
              grouped.values[key][craft] =
                  Cardinality({i \in OrdersOf(key) : df[i].CRAFT = craft})
        /\ \A perm \in Permutations(1..Len(df)) : Grouped(Permuted(df, perm)) = grouped

\* C4 witness: a pair counted twice, a pair of the same building counted once
\* under a craft outside the palette, the two occurrences not adjacent.
C4_Witness ==
    /\ pc = "rendered"
    /\ Len(df) = 3
    /\ df[1].FAC_ID_MAPPED = KLAUS /\ df[1].CRAFT = HVAC
    /\ df[2].FAC_ID_MAPPED = KLAUS /\ df[2].CRAFT = ROOFING
    /\ df[3].FAC_ID_MAPPED = KLAUS /\ df[3].CRAFT = HVAC
    /\ grouped.values[KLAUS][HVAC] = 2
    /\ grouped.values[KLAUS][ROOFING] = 1

\* tooltips of the buildings that are a row of the count table
Charted == {i \in 1..Len(tooltip_html) : gdf[i].Sheet3__Common_Name \in Range(grouped.index)}

RowTotal(key) == Cardinality(OrdersOf(key))

RECURSIVE SumNum(_)
SumNum(legend) == IF legend = <<>> THEN 0 ELSE Head(legend).pct.num + SumNum(Tail(legend))

\* C6: Proportion invariant.  For every building that is a row of the count
\* table the crafts of the legend are the crafts with a positive count, the
\* divisor is the positive total of the row, every proportion is
\* count / total * 100, greater than 0 and at most 100, and the proportions
\* add up to 100.
C6_ProportionInvariant ==
    pc = "rendered" =>
        \A i \in Charted :
            LET key    == gdf[i].Sheet3__Common_Name
                legend == tooltip_html[i].legend
            IN  /\ RowTotal(key) > 0
                /\ {legend[k].craft : k \in 1..Len(legend)} =
                      {c \in Crafts : grouped.values[key][c] > 0}
                /\ \A k \in 1..Len(legend) :
                      /\ legend[k].pct.den = RowTotal(key)
                      /\ legend[k].pct.num = 100 * grouped.values[key][legend[k].craft]
                      /\ 0 < legend[k].pct.num
                      /\ legend[k].pct.num <= 100 * legend[k].pct.den
                /\ SumNum(legend) = 100 * RowTotal(key)

\* C6 witness: a building with two crafts in its legend while another craft
\* of the table has count zero for it, and a building with a single craft.
C6_Witness ==
    /\ pc = "rendered"
    /\ \E i \in Charted :
          /\ Len(tooltip_html[i].legend) = 2
          /\ \E c \in Crafts : grouped.values[gdf[i].Sheet3__Common_Name][c] = 0
    /\ \E i \in Charted : Len(tooltip_html[i].legend) = 1

LegendCrafts(i) ==
    [k \in 1..Len(tooltip_html[i].legend) |-> tooltip_html[i].legend[k].craft]

\* crafts of one building's filtered orders in order of first occurrence
FirstOccurrences(key) ==
    Unique([k \in 1..Len(df) |-> df[k].CRAFT], Crafts \ {df[i].CRAFT : i \in OrdersOf(key)})

\* C7 as stated: the legend lists the crafts in the order in which they first
\* occur among the building's work orders.
C7_FirstOccurrenceOrder ==
    pc = "rendered" =>
        \A i \in Charted : LegendCrafts(i) = FirstOccurrences(gdf[i].Sheet3__Common_Name)

\* C7 amended: the legend lists the building's non-zero crafts in the column
\* order of the count table, which is the ascending code-point order of the
\* craft labels whatever the order of the work orders; zero-count crafts are
\* left out without reordering the rest.
C7_SortedColumnOrder ==
    pc = "rendered" =>
        \A i \in Charted :
            LET key == gdf[i].Sheet3__Common_Name
            IN  /\ LegendCrafts(i) =
                      SelectSeq(grouped.columns, LAMBDA c : grouped.values[key][c] > 0)
                /\ \A k \in 1..(Len(LegendCrafts(i)) - 1) :
                      StrLess(LegendCrafts(i)[k], LegendCrafts(i)[k + 1])
                /\ Range(LegendCrafts(i)) = {df[k].CRAFT : k \in OrdersOf(key)}

\* C7 witness: a building whose first order is HVAC and whose second is
\* ELECTRIC, with a legend and a zero-count craft left out of it.
C7_Witness ==
    /\ pc = "rendered"
    /\ \E i \in Charted :
          /\ FirstOccurrences(gdf[i].Sheet3__Common_Name) = <<HVAC, ELECTRIC>>
          /\ LegendCrafts(i) = <<ELECTRIC, HVAC>>
          /\ Len(grouped.columns) = 3

\* C8: Empty-building behaviour.  Every building gets a tooltip; a building
\* whose name is no row of the count table gets the placeholder without
\* legend, a building that is a row never gets the placeholder.
C8_EmptyBuildingPlaceholder ==
    pc = "rendered" =>
        /\ Len(tooltip_html) = Len(gdf)
        /\ \A i \in 1..Len(gdf) :
              IF gdf[i].Sheet3__Common_Name \notin Range(grouped.index)
              THEN tooltip_html[i] = NoData(gdf[i].Sheet3__Common_Name)
              ELSE /\ tooltip_html[i].text = "pie"
                   /\ tooltip_html[i].legend # <<>>

\* C8 witness: of two buildings one has orders and one has none.
C8_Witness ==
    /\ pc = "rendered"
    /\ grouped.index # <<>>
    /\ \E i, j \in 1..Len(gdf) :
          /\ tooltip_html[i].text = "No work-order data"
          /\ tooltip_html[j].text = "pie"

(***************************************************************************)
(* Properties of normalization.                                            *)
(***************************************************************************)
LowerChar(c) ==
    IF \E i \in 1..Len(UpperCase) : UpperCase[i] = c
    THEN LowerCase[CHOOSE i \in 1..Len(UpperCase) : UpperCase[i] = c]
    ELSE c

\* x and y differ only in letter case and in leading or trailing spaces
SameUpToCaseAndPadding(x, y) ==
    \E i \in 0..Len(x), j \in 0..Len(y) :
        \E n \in 0..Min(Len(x) - i, Len(y) - j) :
            /\ \A k \in 1..Len(x) : (k <= i \/ k > i + n) => x[k] = " "
            /\ \A k \in 1..Len(y) : (k <= j \/ k > j + n) => y[k] = " "
            /\ \A k \in 1..n : LowerChar(x[i + k]) = LowerChar(y[j + k])

\* C9: Normalization is idempotent on every identifier and registry name, and
\* is the same on both sides: two raw identifiers that differ only in case or
\* outer whitespace get the same aggregation key, and an identifier that
\* differs from a registry entry only in case or outer whitespace is counted
\* under that building's name and charted in its tooltip.
C9_NormalizationConsistent ==
    /\ \A i \in 1..Len(csv) :
          Normalize(Normalize(csv[i].FAC_ID)) = Normalize(csv[i].FAC_ID)
    /\ \A k \in 1..Len(geojson) :
          Normalize(Normalize(geojson[k])) = Normalize(geojson[k])
    /\ pc = "rendered" =>
          /\ \A i, j \in 1..Len(df) :
                SameUpToCaseAndPadding(df[i].FAC_ID, df[j].FAC_ID) =>
                    df[i].FAC_ID_MAPPED = df[j].FAC_ID_MAPPED
          /\ \A i \in 1..Len(df), k \in 1..Len(geojson) :
                SameUpToCaseAndPadding(df[i].FAC_ID, geojson[k]) =>
                    /\ df[i].FAC_ID_MAPPED = gdf[k].Sheet3__Common_Name
                    /\ df[i].FAC_ID_MAPPED \notin DOMAIN suggestions
                    /\ tooltip_html[k].text = "pie"

\* C9 witness: two differently written identifiers, one with a trailing space
\* and one in lower case, are counted together under a registry name that is
\* written in a third way.
C9_Witness ==
    /\ pc = "rendered"
    /\ Len(df) = 2
    /\ df[1].FAC_ID = <<"C", " ">>
    /\ df[2].FAC_ID = <<" ", "c">>
    /\ geojson = << <<"c">> >>
    /\ grouped.values[<<"C">>][HVAC] = 2

(***************************************************************************)
(* Properties of the date filter.                                          *)
(***************************************************************************)
YearSelected(o) ==
    selected_years[1] <= o.WORKDATE.year /\ o.WORKDATE.year <= selected_years[2]

MonthRangeEnabled == selected_months[1].some

MonthSelected(o) ==
    selected_months[1].val <= o.WORKDATE.month /\ o.WORKDATE.month <= selected_months[2].val

SeasonEnabled == season_months.some

InSeason(o) == o.WORKDATE.month \in season_months.val

Selected(o) ==
    /\ YearSelected(o)
    /\ MonthRangeEnabled => MonthSelected(o)
    /\ SeasonEnabled => InSeason(o)

\* C10: Filter soundness and completeness.  The filtered orders are exactly
\* the orders of the file whose year is in the selected range and, when the
\* month-range filter is on, whose month is in the selected range and, when
\* the season filter is on, whose month is one of the season's; they are the
\* orders counted in the count table.
C10_FilterSoundAndComplete ==
    Aggregated =>
        /\ [i \in 1..Len(df) |-> Order(df[i].FAC_ID, df[i].CRAFT, df[i].year, df[i].month)]
              = SelectSeq(csv, Selected)
        /\ \A key \in {Normalize(csv[i].FAC_ID) : i \in 1..Len(csv)},
              craft \in {csv[i].CRAFT : i \in 1..Len(csv)} :
              Cell(ReplaceOverrides(key), craft) =
                  Cardinality({i \in 1..Len(csv) :
                      /\ Selected(csv[i])
                      /\ Normalize(csv[i].FAC_ID) = key
                      /\ csv[i].CRAFT = craft})

\* C10 witness: both optional filters are on; one order passes all three
\* filters and one passes the year and month ranges but not the season.
C10_Witness ==
    /\ pc = "rendered"
    /\ MonthRangeEnabled
    /\ SeasonEnabled
    /\ Len(df) = 1
    /\ \E i \in 1..Len(csv) :
          YearSelected(csv[i]) /\ MonthSelected(csv[i]) /\ ~InSeason(csv[i])

====
